---------------------------- MODULE Spec2Model ----------------------------
(***************************************************************************)
(* A model of the query execution core of octosql:                         *)
(*   - execution/group_by.go : GroupBy.Get and GroupByStream.Next          *)
(*   - cmd/root.go           : the root command's RunE pipeline and the    *)
(*                             lazily initialised database registry        *)
(*                             and the plugins' file extension handlers    *)
(*   - physical (describe)   : DescribeNode / DescribeExpr                 *)
(* Each part has its own specification (SpecGroupBy, SpecCmd,              *)
(* SpecRegistry, SpecFileHandlers, SpecDescribe); the variables of the     *)
(* other parts stay at their idle values.                                  *)
(***************************************************************************)
EXTENDS Integers, Sequences, FiniteSets, TLC

VARIABLES
    node,       \* the GroupBy node: source, key, fields, aggregatePrototypes
    stream,     \* the GroupByStream made by Get, or NoStream
    ret,        \* what the latest Get/Next call returned: [op, record, err]
    hist,       \* history of the GroupByStream calls (observations only)
    flags,          \* cmd: --describe, --explain, --optimize, --output
    args,           \* cmd: the query as parsed: its LIMIT and ORDER BY
    outputOptions,  \* cmd: outputOptions, which RunE rewrites
    physicalPlan,   \* cmd: physicalPlan
    run,            \* cmd: RunE's position and its other locals
    databases,      \* registry: per database, the closure's once, db and err
    callers,        \* registry: the goroutines calling the accessors
    describedNode,  \* describe: the physical plan DescribeNode is called on
    graphs,         \* describe: the graphs its invocations returned, in order
    fileExtensionHandlers,  \* handlers: the plugins' (ext, pluginName) entries
    loopVars,       \* handlers: ext, pluginName of the range loop of line 200
    fileHandlers,   \* handlers: fileHandlers, per extension the kind of creator
    handled         \* handlers: the latest call of a plugin's file handler

gbVars == <<node, stream, ret, hist>>

cmdVars == <<flags, args, outputOptions, physicalPlan, run>>

regVars == <<databases, callers>>

descVars == <<describedNode, graphs>>

fhVars == <<fileExtensionHandlers, loopVars, fileHandlers, handled>>

vars == <<node, stream, ret, hist, flags, args, outputOptions, physicalPlan, run,
          databases, callers, describedNode, graphs,
          fileExtensionHandlers, loopVars, fileHandlers, handled>>

(***************************************************************************)
(* Bounds                                                                  *)
(***************************************************************************)
\* longest source sequence fed to a GroupByStream
MaxSrc == 3
\* largest LIMIT of a query, most ORDER BY expressions, largest --explain
MaxLimit == 2
MaxOrderBy == 2
MaxExplain == 2
\* plugin databases in the registry, and goroutines calling their accessors
NumDatabases == 2
NumCallers == 2
\* nodes above a leaf in a described plan, and invocations of DescribeNode
MaxDepth == 2
Invocations == 2

(***************************************************************************)
(* Small helpers                                                           *)
(***************************************************************************)
Range(s) == {s[i] : i \in DOMAIN s}

SeqsUpTo(S, n) == UNION {[1..k -> S] : k \in 0..n}

NoDuplicates(s) == \A i, j \in DOMAIN s : i # j => s[i] # s[j]

Min(S) == CHOOSE x \in S : \A y \in S : x <= y

(***************************************************************************)
(* execution/group_by.go                                                   *)
(***************************************************************************)
Nil == "nil"
ErrEndOfStream == "ErrEndOfStream"
ErrOther == "error"

\* the source's columns and the values a column can hold; Absent is a
\* record without that field / a variable that is not bound
Cols == {"a", "b"}
IntVal(n) == [t |-> "int", v |-> n]
Absent == [t |-> "absent", v |-> 0]
\* what evaluating an expression gives when it fails
EvalErr == [t |-> "error", v |-> 0]
ColVals == [a |-> {IntVal(1), IntVal(2)}, b |-> {IntVal(2), Absent}]
Records == {r \in [Cols -> {IntVal(1), IntVal(2), Absent}] :
                \A c \in Cols : r[c] \in ColVals[c]}

\* an item the source stream yields: a record, or an error of the source
SrcErr == [c \in Cols |-> EvalErr]
SrcItems == Records \cup {SrcErr}

\* the value line 100 appends to an empty key: struct{}{}
Unit == [t |-> "unit", v |-> 0]

\* Expression.ExpressionValue for a variable expression over the record's
\* variables: the value, or an error when the variable is not bound
ExpressionValue(expr, record) ==
    IF record[expr] = Absent THEN EvalErr ELSE record[expr]

\* Record.Value(field)
RecordValue(record, field) == record[field]

\* Aggregate.String()
AggString(agg) == agg.name

\* AggregatePrototype(): a fresh aggregate without any group
NewAggregate(name) == [name |-> name, state |-> <<>>]

\* Aggregate.AddRecord(key, value): count counts every value, sum adds
\* numbers and fails on a value that is not a number
AddRecordFails(agg, value) == agg.name = "sum" /\ value = Absent

AddRecord(agg, key, value) ==
    LET old == IF key \in DOMAIN agg.state THEN agg.state[key] ELSE 0
        new == IF agg.name = "count" THEN old + 1 ELSE old + value.v
    IN [agg EXCEPT !.state =
            [k \in DOMAIN agg.state \cup {key} |->
                IF k = key THEN new ELSE agg.state[k]]]

\* Aggregate.GetAggregated(key): fails for a key the aggregate never saw
GetAggregatedFails(agg, key) == key \notin DOMAIN agg.state

GetAggregated(agg, key) == agg.state[key]

\* a HashMap without entries. GroupBy.Get sets no groups field; the stream
\* is modelled as starting with a usable, empty map, as Next presupposes
EmptyHashMap == <<>>

\* HashMap.Set(key, struct{}{}): the groups in insertion order
HashMapSet(groups, key) ==
    IF key \in Range(groups) THEN groups ELSE Append(groups, key)

\* HashMap.GetIterator(): a position before the first group
GetIterator(groups) == 0

\* a nil *Iterator
NilIterator == -1

\* a nil *Record, and NewRecordFromSlice(fields, data)
NilRecord == [isNil |-> TRUE, fields |-> <<>>, data |-> <<>>]
NewRecordFromSlice(fields, data) == [isNil |-> FALSE, fields |-> fields, data |-> data]

\* Iterator.Next(): ok is false once every group has been visited
IteratorHasNext(groups, it) == it < Len(groups)

\* lines 91-101: the key of a record; wrong: only the first key expression
GroupKeyFirstOnly(keyExprs, record) ==
    IF Len(keyExprs) = 0 THEN <<Unit>>
    ELSE <<ExpressionValue(keyExprs[1], record)>>

\* lines 91-101: evaluate every key expression; an empty key becomes the
\* singleton key holding struct{}{}
GroupKey(keyExprs, record) ==
    LET key == [i \in 1..Len(keyExprs) |-> ExpressionValue(keyExprs[i], record)]
    IN IF Len(key) = 0 THEN Append(key, Unit) ELSE key

\* lines 93-96: some key expression fails to evaluate
GroupKeyFails(keyExprs, record) ==
    \E i \in 1..Len(keyExprs) : ExpressionValue(keyExprs[i], record) = EvalErr

\* lines 108-113: the aggregates after one record: each aggregate in turn
\* adds the record's value, and the loop stops at the first that fails
FirstFailing(st, record) ==
    {i \in 1..Len(st.aggregates) :
        AddRecordFails(st.aggregates[i], RecordValue(record, st.fields[i]))}

AddToAggregates(st, key, record) ==
    LET bad  == FirstFailing(st, record)
        upto == IF bad = {} THEN Len(st.aggregates) ELSE Min(bad) - 1
    IN [i \in 1..Len(st.aggregates) |->
            IF i <= upto
            THEN AddRecord(st.aggregates[i], key, RecordValue(record, st.fields[i]))
            ELSE st.aggregates[i]]

\* lines 86-113: the loop body for one record pulled from the source
ProcessRecord(st, record) ==
    IF GroupKeyFails(st.key, record)
    THEN [st EXCEPT !.outcome = ErrOther]
    ELSE LET key == GroupKey(st.key, record)
             st1 == [st EXCEPT !.groups = HashMapSet(st.groups, key),
                               !.aggregates = AddToAggregates(st, key, record)]
         IN IF FirstFailing(st, record) # {}
            THEN [st1 EXCEPT !.outcome = ErrOther]
            ELSE st1

\* lines 66-114: pull from the source until it ends or something fails.
\* st is the stream with two more fields: calls, the number of
\* source.Next calls made, and outcome.
RECURSIVE Consume(_)
Consume(st) ==
    IF st.source = <<>>
    THEN \* source.Next returns ErrEndOfStream: lines 69-81
         [st EXCEPT !.calls = @ + 1,
                    !.outcome = ErrEndOfStream,
                    !.fieldNames = [i \in 1..Len(st.fields) |->
                                        <<st.fields[i], AggString(st.aggregates[i])>>],
                    !.iterator = GetIterator(st.groups)]
    ELSE LET item == Head(st.source)
             st1  == [st EXCEPT !.source = Tail(@), !.calls = @ + 1]
         IN IF item = SrcErr
            THEN [st1 EXCEPT !.outcome = ErrOther]
            ELSE LET st2 == ProcessRecord(st1, item)
                 IN IF st2.outcome = ErrOther THEN st2 ELSE Consume(st2)

\* line 65; wrong: the source is drained on every call
NeedsConsumeAlways(s) == TRUE

\* line 65: the source is drained only while there is no iterator
NeedsConsume(s) == s.iterator = NilIterator

\* lines 117-132: what Next returns once the iterator exists, and the
\* iterator after the call
Emit(s) ==
    IF ~IteratorHasNext(s.groups, s.iterator)
    THEN [iterator |-> s.iterator, key |-> <<>>, record |-> NilRecord, err |-> ErrEndOfStream]
    ELSE LET key == s.groups[s.iterator + 1]
             it  == s.iterator + 1
         IN IF \E i \in 1..Len(s.aggregates) : GetAggregatedFails(s.aggregates[i], key)
            THEN [iterator |-> it, key |-> key, record |-> NilRecord, err |-> ErrOther]
            ELSE [iterator |-> it, key |-> key,
                  record |-> NewRecordFromSlice(s.fieldNames,
                                [i \in 1..Len(s.aggregates) |->
                                    GetAggregated(s.aggregates[i], key)]),
                  err |-> ErrEndOfStream]

\* no GroupByStream yet: Get has not been called, or it failed
NoStream == [open |-> FALSE, source |-> <<>>, key |-> <<>>, groups |-> <<>>,
             fields |-> <<>>, aggregates |-> <<>>, fieldNames |-> <<>>,
             iterator |-> NilIterator]

\* the key expressions and (field, aggregate) lists a GroupBy is built with
KeyConfigs == {<<>>, <<"a">>, <<"a", "b">>}
AggConfigs == {<<>>, <<[field |-> "b", agg |-> "count"]>>,
               <<[field |-> "b", agg |-> "sum"]>>,
               <<[field |-> "a", agg |-> "count"], [field |-> "b", agg |-> "sum"]>>}

\* NewGroupBy, lines 26-28
NewGroupBy(source, key, aggs) ==
    [source |-> source, key |-> key,
     fields |-> [i \in 1..Len(aggs) |-> aggs[i].field],
     aggregatePrototypes |-> [i \in 1..Len(aggs) |-> aggs[i].agg]]

\* the root command before it is run
NoPlan == [Schema |-> [NoRetractions |-> FALSE, Fields |-> <<>>], nodes |-> <<>>,
           optimized |-> FALSE]
NoExecutionPlan == [kind |-> "none", nodes |-> <<>>, noRetractions |-> FALSE,
                    Schema |-> [Fields |-> <<>>]]
NoSink == [kind |-> "none", input |-> NoExecutionPlan, orderBy |-> 0, limit |-> 0,
           live |-> FALSE]
NoRun == [pc |-> "start", err |-> Nil, physicalOrderByExpressions |-> 0,
          executionPlan |-> NoExecutionPlan, orderByExpressions |-> 0,
          outSchema |-> "none", sink |-> NoSink, sinkRan |-> FALSE,
          panicked |-> "none"]

CmdIdle ==
    /\ flags = [describe |-> FALSE, explain |-> 0, optimize |-> TRUE,
                output |-> "live_table"]
    /\ args = [Limit |-> 0, OrderBy |-> 0, Fields |-> <<>>]
    /\ outputOptions = [Limit |-> 0, OrderByExpressions |-> 0, OrderByDirections |-> 0]
    /\ physicalPlan = NoPlan
    /\ run = NoRun

\* no plan is being described
DescIdle ==
    /\ describedNode = [NodeType |-> "Datasource", Name |-> "t", Predicates |-> <<>>]
    /\ graphs = <<>>

\* the registry right after lines 132-189 built it: no plugin runs yet
DatabaseNames == 1..NumDatabases
Callers == 1..NumCallers
NoDatabase == 0
NewEntry == [once |-> [done |-> 0, m |-> 0], db |-> NoDatabase, err |-> Nil,
             runs |-> 0, accessed |-> FALSE, first |-> [db |-> NoDatabase, err |-> Nil]]
IdleCaller == [pc |-> "idle", name |-> 1, ran |-> FALSE, returned |-> FALSE,
               result |-> [db |-> NoDatabase, err |-> Nil]]

RegIdle ==
    /\ databases = [d \in DatabaseNames |-> NewEntry]
    /\ callers = [c \in Callers |-> IdleCaller]

\* lines 195-199: the extensions with a built-in creator, and the
\* extensions plugins handle in the configurations tried
BuiltinExtensions == {"csv", "json", "parquet"}
PluginExtensions == {"csv", "xlsx", "avro"}
NoHandlers == [e \in BuiltinExtensions \cup PluginExtensions |->
                    IF e \in BuiltinExtensions THEN "builtin" ELSE "none"]
\* ext, pluginName before the loop of line 200 has assigned them
NoLoopVars == [ext |-> "", pluginName |-> NoDatabase, visited |-> {}]
NotHandled == [ext |-> "", pluginName |-> NoDatabase,
               result |-> [db |-> NoDatabase, err |-> Nil]]

FhIdle ==
    /\ fileExtensionHandlers = {}
    /\ loopVars = NoLoopVars
    /\ fileHandlers = NoHandlers
    /\ handled = NotHandled

NoHist == [emitted |-> <<>>, srcCalls |-> 0, srcEOS |-> FALSE,
           failed |-> FALSE, pulledAfterIterator |-> FALSE]

InitGroupBy ==
    /\ CmdIdle
    /\ RegIdle
    /\ DescIdle
    /\ FhIdle
    /\ \E src \in SeqsUpTo(SrcItems, MaxSrc), key \in KeyConfigs, aggs \in AggConfigs :
            node = NewGroupBy(src, key, aggs)
    /\ stream = NoStream
    /\ ret = [op |-> "none", record |-> NilRecord, err |-> Nil]
    /\ hist = NoHist

\* GroupBy.Get, lines 30-48
Get ==
    /\ stream = NoStream
    /\ \E ok \in BOOLEAN :
        IF ~ok
        THEN /\ ret' = [op |-> "Get", record |-> NilRecord, err |-> ErrOther]
             /\ UNCHANGED <<stream, hist>>
        ELSE /\ stream' = [open |-> TRUE,
                           source |-> node.source,
                           key |-> node.key,
                           groups |-> EmptyHashMap,
                           fields |-> node.fields,
                           aggregates |-> [i \in 1..Len(node.aggregatePrototypes) |->
                                               NewAggregate(node.aggregatePrototypes[i])],
                           fieldNames |-> <<>>,
                           iterator |-> NilIterator]
             /\ ret' = [op |-> "Get", record |-> NilRecord, err |-> Nil]
             /\ UNCHANGED hist
    /\ UNCHANGED node
    /\ UNCHANGED fhVars
    /\ UNCHANGED cmdVars
    /\ UNCHANGED regVars
    /\ UNCHANGED descVars

\* GroupByStream.Next, lines 64-133
StreamNext ==
    /\ stream.open
    /\ LET drained == IF NeedsConsume(stream)
                      THEN Consume([source |-> stream.source, key |-> stream.key,
                                    groups |-> stream.groups, fields |-> stream.fields,
                                    aggregates |-> stream.aggregates,
                                    fieldNames |-> stream.fieldNames,
                                    iterator |-> stream.iterator,
                                    calls |-> 0, outcome |-> Nil])
                      ELSE [source |-> stream.source, key |-> stream.key,
                            groups |-> stream.groups, fields |-> stream.fields,
                            aggregates |-> stream.aggregates,
                            fieldNames |-> stream.fieldNames,
                            iterator |-> stream.iterator,
                            calls |-> 0, outcome |-> Nil]
           s1 == [open |-> TRUE, source |-> drained.source, key |-> drained.key,
                  groups |-> drained.groups, fields |-> drained.fields,
                  aggregates |-> drained.aggregates,
                  fieldNames |-> drained.fieldNames,
                  iterator |-> drained.iterator]
           h1 == [hist EXCEPT
                    !.srcCalls = @ + drained.calls,
                    !.srcEOS = @ \/ drained.outcome = ErrEndOfStream,
                    !.pulledAfterIterator = @ \/ (stream.iterator # NilIterator /\ drained.calls > 0)]
       IN IF drained.outcome = ErrOther
          THEN \* lines 83, 88, 95, 105, 111
               /\ stream' = s1
               /\ ret' = [op |-> "Next", record |-> NilRecord, err |-> ErrOther]
               /\ hist' = [h1 EXCEPT !.failed = TRUE]
          ELSE LET e == Emit(s1)
               IN /\ stream' = [s1 EXCEPT !.iterator = e.iterator]
                  /\ ret' = [op |-> "Next", record |-> e.record, err |-> e.err]
                  /\ hist' = [h1 EXCEPT
                                !.failed = @ \/ e.err = ErrOther,
                                !.emitted = IF ~e.record.isNil
                                            THEN Append(@, [key |-> e.key, record |-> e.record])
                                            ELSE @]
    /\ UNCHANGED node
    /\ UNCHANGED fhVars
    /\ UNCHANGED cmdVars
    /\ UNCHANGED regVars
    /\ UNCHANGED descVars

NextGroupBy == Get \/ StreamNext

SpecGroupBy == InitGroupBy /\ [][NextGroupBy]_vars

(***************************************************************************)
(* Claims about GroupByStream (checked under SpecGroupBy)                  *)
(***************************************************************************)
\* the latest call was a Next that returned no record and ErrEndOfStream
NextEnded == ret.op = "Next" /\ ret.record.isNil /\ ret.err = ErrEndOfStream

\* C1: every Next returns exactly one of: a record and no error, no record
\* and ErrEndOfStream, no record and an error; never a record together
\* with ErrEndOfStream.
C1_NextOutcomes ==
    ret.op = "Next" =>
        \/ ~ret.record.isNil /\ ret.err = Nil
        \/ ret.record.isNil /\ ret.err = ErrEndOfStream
        \/ ret.record.isNil /\ ret.err = ErrOther

\* the tuple of key expression values of a source record, as the claim
\* states it
KeyTuple(record) == [i \in 1..Len(node.key) |-> record[node.key[i]]]

\* the key tuple an emission stands for
EmittedKeyTuple(e) == IF node.key = <<>> THEN <<>> ELSE e.key

C3_ConsumeBeforeEmit ==
    /\ (hist.emitted # <<>> \/ ~ret.record.isNil) => hist.srcEOS
    /\ stream.iterator # NilIterator => hist.srcEOS
    /\ ~hist.pulledAfterIterator
    /\ hist.srcCalls <= Len(node.source) + 1

\* C3's case: the source held records and an error, and Next was called
\* again after the iterator was created
C3_Witness ==
    /\ Len(hist.emitted) >= 2
    /\ hist.failed
    /\ hist.srcCalls = Len(node.source) + 1

\* C4: an emitted record holds the group's key values followed by one
\* value per aggregate: len(key) + len(aggregates) fields.
C4_RecordLayout ==
    \A i \in DOMAIN hist.emitted :
        LET e == hist.emitted[i]
        IN /\ Len(e.record.data) = Len(node.key) + Len(stream.aggregates)
           /\ Len(e.record.fields) = Len(e.record.data)
           /\ \A j \in 1..Len(node.key) : e.record.data[j] = e.key[j].v

\* C5: an empty key over an empty source emits exactly one record, with
\* count 0, before the end of the stream.
C5_EmptyInputOneRecord ==
    (NextEnded /\ node.source = <<>> /\ node.key = <<>>) =>
        /\ Len(hist.emitted) = 1
        /\ \A i \in 1..Len(stream.aggregates) :
                stream.aggregates[i].name = "count" =>
                    hist.emitted[1].record.data[i] = 0

(***************************************************************************)
(* cmd/root.go: rootCmd.RunE                                               *)
(***************************************************************************)
Outputs == {"live_table", "batch_table", "csv", "json", "stream_native", "table"}

\* the output columns of the queries tried, by the names the query gives them
QueryFields == {<<"a">>, <<"a", "b">>}

\* the mapping typechecking returns, original name -> uniquified name: the
\* unique name generator appends a counter to each name
Mapping(fields) ==
    [n \in Range(fields) |->
        n \o "_" \o ToString((CHOOSE i \in DOMAIN fields : fields[i] = n) - 1)]

\* logical.ReverseMapping, line 248: uniquified name -> original name
ReverseMapping(mapping) ==
    [u \in {mapping[n] : n \in DOMAIN mapping} |->
        CHOOSE n \in DOMAIN mapping : mapping[n] = u]

\* what node.Typecheck and expr.Typecheck can do: return their result, or
\* panic on an internal assertion
TypecheckOutcomes == {"returns", "panics"}

\* lines 495-499, 509-513; wrong: the panic is recovered and outErr not set
TypecheckErrorUnset(outcome) == Nil

\* lines 495-499, 509-513: the deferred recover turns a panic into outErr
TypecheckError(outcome) ==
    IF outcome = "panics" THEN "typecheck error" ELSE Nil

GroupByIdle ==
    /\ node = NewGroupBy(<<>>, <<>>, <<>>)
    /\ stream = NoStream
    /\ ret = [op |-> "none", record |-> NilRecord, err |-> Nil]
    /\ hist = NoHist

InitCmd ==
    /\ GroupByIdle
    /\ RegIdle
    /\ DescIdle
    /\ FhIdle
    /\ flags \in [describe : BOOLEAN, explain : 0..MaxExplain, optimize : BOOLEAN,
                  output : Outputs]
    /\ args \in [Limit : 0..MaxLimit, OrderBy : 0..MaxOrderBy, Fields : QueryFields]
    /\ outputOptions = [Limit |-> 0, OrderByExpressions |-> 0, OrderByDirections |-> 0]
    /\ physicalPlan = NoPlan
    /\ run = NoRun

\* return err: RunE ends with an error
Return(r, e) == [r EXCEPT !.pc = "done", !.err = e]

\* lines 98-130, 191-194, 220-227: read the configuration, list the plugins,
\* parse the query into the logical plan and outputOptions
CmdSetup ==
    /\ run.pc = "start"
    /\ \E ok \in BOOLEAN :
        IF ok
        THEN /\ outputOptions' = [Limit |-> args.Limit,
                                  OrderByExpressions |-> args.OrderBy,
                                  OrderByDirections |-> args.OrderBy]
             /\ run' = [run EXCEPT !.pc = "parsed"]
        ELSE /\ run' = Return(run, "couldn't set up")
             /\ UNCHANGED outputOptions
    /\ UNCHANGED <<flags, args, physicalPlan>>
    /\ UNCHANGED gbVars
    /\ UNCHANGED fhVars
    /\ UNCHANGED regVars
    /\ UNCHANGED descVars

\* lines 494-506: typecheckNode gives the typed plan, or on a panic the
\* zero Node, and outErr
TypecheckNode(outcome, nr) ==
    [node |-> IF outcome = "panics" THEN NoPlan
              ELSE [Schema |-> [NoRetractions |-> nr,
                                Fields |-> [i \in DOMAIN args.Fields |->
                                                Mapping(args.Fields)[args.Fields[i]]]],
                    nodes |-> <<"Datasource">>,
                    optimized |-> FALSE],
     err |-> TypecheckError(outcome)]

\* lines 508-520: typecheckExpr's outErr
TypecheckExpr(outcome) == TypecheckError(outcome)

\* lines 234-264: typecheck the logical plan, then the ORDER BY expressions
\* one by one; panics is the index of the first expression whose Typecheck
\* panics, 0 when none does
CmdTypecheck ==
    /\ run.pc = "parsed"
    /\ \E outcome \in TypecheckOutcomes, nr \in BOOLEAN,
          panics \in 0..outputOptions.OrderByExpressions :
        LET checked == TypecheckNode(outcome, nr)
            exprErr == TypecheckExpr(IF panics > 0 THEN "panics" ELSE "returns")
            r1      == [run EXCEPT !.panicked = IF outcome = "panics" THEN "node"
                                                ELSE IF panics > 0 THEN "expr"
                                                ELSE "none"]
        IN /\ physicalPlan' = checked.node
           /\ IF checked.err # Nil
              THEN \* line 246
                   run' = Return(r1, checked.err)
              ELSE IF exprErr # Nil
              THEN \* line 261
                   run' = Return(r1, "couldn't typecheck order by expression")
              ELSE run' = [r1 EXCEPT
                            !.pc = "typechecked",
                            !.physicalOrderByExpressions = outputOptions.OrderByExpressions]
    /\ UNCHANGED <<flags, args, outputOptions>>
    /\ UNCHANGED gbVars
    /\ UNCHANGED fhVars
    /\ UNCHANGED regVars
    /\ UNCHANGED descVars

\* lines 265-276: a plan without retractions is sorted by a physical OrderBy
WrapOrderBy(plan, nOrderBy) ==
    IF plan.Schema.NoRetractions /\ nOrderBy > 0
    THEN [plan EXCEPT !.nodes = <<"OrderBy">> \o @]
    ELSE plan

\* line 277: a plan without retractions and nothing left to sort by takes
\* the LIMIT as a physical Limit node
LimitInPlan(plan, nOrderBy) == plan.Schema.NoRetractions /\ nOrderBy = 0

\* lines 265-293
CmdWrap ==
    /\ run.pc = "typechecked"
    /\ LET nOrderBy == run.physicalOrderByExpressions
           sorted   == WrapOrderBy(physicalPlan, nOrderBy)
           left     == IF physicalPlan.Schema.NoRetractions /\ nOrderBy > 0
                       THEN 0 ELSE nOrderBy
           limited  == LimitInPlan(sorted, left)
       IN /\ physicalPlan' = IF limited
                             THEN [sorted EXCEPT !.nodes = <<"Limit">> \o @]
                             ELSE sorted
          /\ outputOptions' = IF limited
                              THEN [outputOptions EXCEPT !.Limit = 0]
                              ELSE outputOptions
          /\ run' = [run EXCEPT
                        !.pc = "planned",
                        !.physicalOrderByExpressions = left]
    /\ UNCHANGED <<flags, args>>
    /\ UNCHANGED gbVars
    /\ UNCHANGED fhVars
    /\ UNCHANGED regVars
    /\ UNCHANGED descVars

\* optimizer.Optimize: rewrites the plan and keeps its schema
Optimize(plan) == [plan EXCEPT !.optimized = TRUE]

\* physicalPlan.Materialize: the execution plan of a physical plan. Schema
\* is the field of a DescribeNode; the other execution nodes have none
Materialize(plan) ==
    [kind |-> "plan", nodes |-> plan.nodes,
     noRetractions |-> plan.Schema.NoRetractions,
     Schema |-> [Fields |-> <<>>]]

\* lines 303-305: the schema's fields under the names the query gave them
OriginalNames(fields, reverseMapping) ==
    [i \in DOMAIN fields |-> reverseMapping[fields[i]]]

\* line 300; wrong: --explain takes precedence over --describe
DescribeOnlyWithoutExplain(f) == f.describe /\ f.explain = 0

\* line 300: --describe alone selects the describe branch
DescribeOnly(f) == f.describe

\* lines 297-367: --describe, or optimize, explain and materialize
CmdPrepare ==
    /\ run.pc = "planned"
    /\ IF DescribeOnly(flags)
       THEN \* lines 300-312
            LET reverseMapping == ReverseMapping(Mapping(args.Fields))
                renamed == [physicalPlan EXCEPT !.Schema.Fields =
                                OriginalNames(@, reverseMapping)]
            IN /\ physicalPlan' = renamed
               /\ run' = [run EXCEPT
                            !.pc = "prepared",
                            !.executionPlan = [kind |-> "describe",
                                               nodes |-> <<"DescribeNode">>,
                                               noRetractions |-> TRUE,
                                               Schema |-> [Fields |-> renamed.Schema.Fields]],
                            !.outSchema = "DescribeNodeSchema"]
               /\ outputOptions' = [Limit |-> 0, OrderByExpressions |-> 0,
                                    OrderByDirections |-> 0]
       ELSE \* lines 313-367
            LET plan == IF flags.optimize THEN Optimize(physicalPlan) ELSE physicalPlan
            IN /\ physicalPlan' = plan
               /\ UNCHANGED outputOptions
               /\ \E ok \in BOOLEAN :
                    IF flags.explain >= 1
                    THEN run' = Return(run, IF ok THEN Nil ELSE "couldn't render graph")
                    ELSE IF ~ok
                    THEN run' = Return(run, "couldn't materialize")
                    ELSE run' = [run EXCEPT
                                    !.pc = "prepared",
                                    !.executionPlan = Materialize(plan),
                                    !.orderByExpressions = run.physicalOrderByExpressions,
                                    !.outSchema = "plan schema"]
    /\ UNCHANGED <<flags, args>>
    /\ UNCHANGED gbVars
    /\ UNCHANGED fhVars
    /\ UNCHANGED regVars
    /\ UNCHANGED descVars

\* batch.NewOutputPrinter, eager.NewOutputPrinter, stream.NewOutputPrinter
BatchPrinter(input, live) ==
    [kind |-> "batch", input |-> input, orderBy |-> run.orderByExpressions,
     limit |-> outputOptions.Limit, live |-> live]
EagerPrinter(input) ==
    [kind |-> "eager", input |-> input, orderBy |-> 0, limit |-> 0, live |-> FALSE]
StreamPrinter(input) ==
    [kind |-> "stream", input |-> input, orderBy |-> 0, limit |-> 0, live |-> FALSE]

\* lines 399, 421; wrong: csv and json always print eagerly
UseEagerAlways(plan) == TRUE

\* lines 399, 421: csv and json print eagerly only a plan without retractions
UseEager(plan) == plan.Schema.NoRetractions

\* nodes.NewBatchOrderBy, lines 444-450
NewBatchOrderBy(input) == [input EXCEPT !.nodes = <<"BatchOrderBy">> \o @]

\* line 451; wrong: the LIMIT is not looked at
StreamRejectsLimitNever(limit) == FALSE

\* line 451
StreamRejectsLimit(limit) == limit > 0

\* lines 369-461: build the sink of the --output format
CmdSink ==
    /\ run.pc = "prepared"
    /\ CASE flags.output = "live_table" ->
                run' = [run EXCEPT !.pc = "sink",
                                   !.sink = BatchPrinter(run.executionPlan, TRUE)]
         [] flags.output = "batch_table" ->
                run' = [run EXCEPT !.pc = "sink",
                                   !.sink = BatchPrinter(run.executionPlan, FALSE)]
         [] flags.output \in {"csv", "json"} ->
                run' = [run EXCEPT !.pc = "sink",
                                   !.sink = IF UseEager(physicalPlan)
                                            THEN EagerPrinter(run.executionPlan)
                                            ELSE BatchPrinter(run.executionPlan, FALSE)]
         [] flags.output = "stream_native" ->
                LET plan == IF run.orderByExpressions > 0
                            THEN NewBatchOrderBy(run.executionPlan)
                            ELSE run.executionPlan
                IN IF StreamRejectsLimit(outputOptions.Limit)
                   THEN run' = [Return(run, "LIMIT clause not supported with stream output")
                                    EXCEPT !.executionPlan = plan]
                   ELSE run' = [run EXCEPT !.pc = "sink",
                                           !.executionPlan = plan,
                                           !.sink = StreamPrinter(plan)]
         [] OTHER -> run' = Return(run, "invalid output format")
    /\ UNCHANGED <<flags, args, outputOptions, physicalPlan>>
    /\ UNCHANGED gbVars
    /\ UNCHANGED fhVars
    /\ UNCHANGED regVars
    /\ UNCHANGED descVars

\* lines 463-472: run the sink
CmdRun ==
    /\ run.pc = "sink"
    /\ \E ok \in BOOLEAN :
        run' = [Return(run, IF ok THEN Nil ELSE "couldn't run query")
                    EXCEPT !.sinkRan = TRUE]
    /\ UNCHANGED <<flags, args, outputOptions, physicalPlan>>
    /\ UNCHANGED gbVars
    /\ UNCHANGED fhVars
    /\ UNCHANGED regVars
    /\ UNCHANGED descVars

NextCmd == CmdSetup \/ CmdTypecheck \/ CmdWrap \/ CmdPrepare \/ CmdSink \/ CmdRun

SpecCmd == InitCmd /\ [][NextCmd]_vars

(***************************************************************************)
(* Claims about the root command (checked under SpecCmd)                   *)
(***************************************************************************)
\* C6: the eager printer is built only for csv and json and only over a
\* plan whose schema has NoRetractions; for csv and json over a plan that
\* can retract the batch printer is built.
C6_EagerOnlyWithoutRetractions ==
    /\ run.sink.kind = "eager" =>
            /\ flags.output \in {"csv", "json"}
            /\ physicalPlan.Schema.NoRetractions
            /\ run.sink.input.kind = "plan" => run.sink.input.noRetractions
    /\ (run.sink.kind # "none" /\ flags.output \in {"csv", "json"}
            /\ ~physicalPlan.Schema.NoRetractions) =>
            run.sink.kind = "batch"

\* C6's cases: csv over a plan that can retract got the batch printer and
\* the sink ran
C6_Witness ==
    /\ run.sinkRan /\ flags.output = "csv" /\ ~flags.describe
    /\ ~physicalPlan.Schema.NoRetractions
    /\ run.sink.kind = "batch"

\* C7 as stated: a positive LIMIT with --output=stream_native always ends
\* in an error, and the sink never runs.
C7_StreamLimitRejected ==
    (run.pc = "done" /\ args.Limit > 0 /\ flags.output = "stream_native") =>
        (run.err # Nil /\ ~run.sinkRan)

\* C7 as amended: a positive LIMIT with --output=stream_native ends in an
\* error, and the sink never runs, when the typechecked plan's schema has
\* NoRetractions false and neither --describe nor --explain is given.
C7_StreamLimitRejectedWithRetractions ==
    (/\ run.pc = "done" /\ args.Limit > 0 /\ flags.output = "stream_native"
     /\ physicalPlan # NoPlan /\ ~physicalPlan.Schema.NoRetractions
     /\ ~flags.describe /\ flags.explain = 0) =>
        (run.err # Nil /\ ~run.sinkRan)

\* C7's case: the stream sink was reached with a LIMIT left in
\* outputOptions and refused
C7_Witness ==
    /\ run.pc = "done" /\ args.Limit > 0 /\ flags.output = "stream_native"
    /\ ~physicalPlan.Schema.NoRetractions /\ ~flags.describe /\ flags.explain = 0
    /\ run.err = "LIMIT clause not supported with stream output"

\* C8: neither a physical OrderBy node nor nodes.NewBatchOrderBy is put
\* over a plan whose schema has NoRetractions false.
C8_OrderByOnlyWithoutRetractions ==
    /\ "OrderBy" \in Range(physicalPlan.nodes) => physicalPlan.Schema.NoRetractions
    /\ "BatchOrderBy" \in Range(run.executionPlan.nodes) =>
            run.executionPlan.noRetractions

\* C12: a panic inside node.Typecheck or expr.Typecheck becomes a non-nil
\* error that RunE returns at once: the plan is not optimized or
\* materialized, no sink is built and no sink runs.
C12_TypecheckRecovered ==
    run.panicked # "none" =>
        /\ run.pc = "done"
        /\ run.err # Nil
        /\ ~physicalPlan.optimized
        /\ run.executionPlan = NoExecutionPlan
        /\ run.sink = NoSink
        /\ ~run.sinkRan

\* C12's case: the plan typechecked, the second ORDER BY expression's
\* Typecheck panicked and RunE has returned the error
C12_Witness ==
    /\ run.panicked = "expr" /\ outputOptions.OrderByExpressions = 2
    /\ physicalPlan # NoPlan
    /\ run.pc = "done"
    /\ run.err = "couldn't typecheck order by expression"

\* C13: with --describe the plan is never optimized or materialized, graph
\* rendering for --explain never happens, and every sink is built over the
\* DescribeNode holding the plan's schema under the query's own field names;
\* whatever --explain and --optimize are.
C13_DescribeNeverExecutes ==
    flags.describe =>
        /\ ~physicalPlan.optimized
        /\ run.executionPlan.kind \in {"none", "describe"}
        /\ run.executionPlan.kind = "describe" =>
                /\ run.executionPlan.nodes = <<"DescribeNode">>
                /\ run.executionPlan.Schema.Fields = args.Fields
        /\ run.sink.kind # "none" => run.sink.input = run.executionPlan
                                        /\ run.sink.input.kind = "describe"
        /\ run.sinkRan => run.sink.input.kind = "describe"
        /\ (run.pc = "done" /\ run.err = Nil) => run.sinkRan
        /\ run.err \notin {"couldn't render graph", "couldn't materialize"}

\* C13's case: --describe together with --explain and --optimize, and the
\* sink ran over the DescribeNode of a two column schema
C13_Witness ==
    /\ flags.describe /\ flags.explain >= 1 /\ flags.optimize
    /\ run.sinkRan /\ run.err = Nil
    /\ run.sink.input.kind = "describe"
    /\ run.sink.input.Schema.Fields = <<"a", "b">>

(***************************************************************************)
(* cmd/root.go: the database registry, lines 132-148 and 170-189           *)
(***************************************************************************)
InitRegistry ==
    /\ GroupByIdle
    /\ CmdIdle
    /\ RegIdle
    /\ DescIdle
    /\ FhIdle

\* a goroutine calls databases[name](): lines 139, 180
Accessor(c, d) ==
    /\ callers[c].pc = "idle"
    /\ callers' = [callers EXCEPT ![c] = [@ EXCEPT !.pc = "Do", !.name = d,
                                                    !.ran = FALSE, !.returned = FALSE]]
    /\ databases' = [databases EXCEPT ![d].accessed = TRUE]
    /\ UNCHANGED gbVars
    /\ UNCHANGED fhVars
    /\ UNCHANGED cmdVars
    /\ UNCHANGED descVars

\* once.Do, lines 140, 181: the fast path reads done without the lock
OnceDo(c) ==
    /\ callers[c].pc = "Do"
    /\ callers' = [callers EXCEPT ![c].pc =
                        IF databases[callers[c].name].once.done = 0
                        THEN "doSlow" ELSE "after"]
    /\ UNCHANGED databases
    /\ UNCHANGED gbVars
    /\ UNCHANGED fhVars
    /\ UNCHANGED cmdVars
    /\ UNCHANGED descVars

\* once.Do's slow path takes the once's mutex
OnceLock(c) ==
    /\ callers[c].pc = "doSlow"
    /\ databases[callers[c].name].once.m = 0
    /\ databases' = [databases EXCEPT ![callers[c].name].once.m = c]
    /\ callers' = [callers EXCEPT ![c].pc = "locked"]
    /\ UNCHANGED gbVars
    /\ UNCHANGED fhVars
    /\ UNCHANGED cmdVars
    /\ UNCHANGED descVars

\* once.Do; wrong: done is not read again under the lock
OnceMustRunUnchecked(once) == TRUE

\* once.Do: under the lock the function runs only if done is still 0
OnceMustRun(once) == once.done = 0

\* lines 141, 182: under the lock, pluginExecutor.RunPlugin starts the
\* plugin and db, err are assigned; a started plugin is a new instance
RunPlugin(c) ==
    /\ callers[c].pc = "locked"
    /\ LET d == callers[c].name
       IN IF OnceMustRun(databases[d].once)
          THEN \E ok \in BOOLEAN :
                LET n   == databases[d].runs + 1
                    res == IF ok THEN [db |-> n, err |-> Nil]
                           ELSE [db |-> NoDatabase, err |-> ErrOther]
                IN /\ databases' = [databases EXCEPT
                                        ![d].db = res.db, ![d].err = res.err,
                                        ![d].runs = n,
                                        ![d].first = IF n = 1 THEN res ELSE @]
                   /\ callers' = [callers EXCEPT ![c] = [@ EXCEPT !.pc = "unlock",
                                                                   !.ran = TRUE]]
          ELSE /\ callers' = [callers EXCEPT ![c].pc = "unlock"]
               /\ UNCHANGED databases
    /\ UNCHANGED gbVars
    /\ UNCHANGED fhVars
    /\ UNCHANGED cmdVars
    /\ UNCHANGED descVars

\* once.Do returns: done is stored if the function ran, the mutex released
OnceUnlock(c) ==
    /\ callers[c].pc = "unlock"
    /\ databases' = [databases EXCEPT
                        ![callers[c].name].once =
                            [done |-> IF callers[c].ran THEN 1 ELSE @.done, m |-> 0]]
    /\ callers' = [callers EXCEPT ![c].pc = "after"]
    /\ UNCHANGED gbVars
    /\ UNCHANGED fhVars
    /\ UNCHANGED cmdVars
    /\ UNCHANGED descVars

\* lines 143-146, 184-187: the accessor returns db, or nil and the error
AccessorReturn(c) ==
    /\ callers[c].pc = "after"
    /\ LET e == databases[callers[c].name]
       IN callers' = [callers EXCEPT ![c] =
                        [@ EXCEPT !.pc = "idle", !.returned = TRUE,
                                  !.result = IF e.err # Nil
                                             THEN [db |-> NoDatabase, err |-> e.err]
                                             ELSE [db |-> e.db, err |-> Nil]]]
    /\ UNCHANGED databases
    /\ UNCHANGED gbVars
    /\ UNCHANGED fhVars
    /\ UNCHANGED cmdVars
    /\ UNCHANGED descVars

NextRegistry ==
    \E c \in Callers :
        \/ \E d \in DatabaseNames : Accessor(c, d)
        \/ OnceDo(c)
        \/ OnceLock(c)
        \/ RunPlugin(c)
        \/ OnceUnlock(c)
        \/ AccessorReturn(c)

SpecRegistry == InitRegistry /\ [][NextRegistry]_vars

(***************************************************************************)
(* Claims about the registry (checked under SpecRegistry)                  *)
(***************************************************************************)
\* C9: a database's plugin is not started before its accessor is called,
\* RunPlugin runs at most once per database whatever the number and
\* interleaving of the calls, and every call returns the result of that one
\* run: the same instance, or the same error.
C9_PluginRunsOnce ==
    \A d \in DatabaseNames :
        /\ databases[d].runs <= 1
        /\ databases[d].runs > 0 => databases[d].accessed
        /\ \A c \in Callers :
            (callers[c].returned /\ callers[c].name = d) =>
                /\ databases[d].runs = 1
                /\ callers[c].result = databases[d].first

\* C9's case: two goroutines were in once.Do of the same database at the
\* same time, one ran the plugin, and both have returned its instance
C9_Witness ==
    \E d \in DatabaseNames :
        /\ \A c \in Callers :
            /\ callers[c].returned /\ callers[c].name = d
            /\ callers[c].result.db = 1 /\ callers[c].pc = "idle"
        /\ \E c \in Callers : ~callers[c].ran
        /\ databases[d].runs = 1

(***************************************************************************)
(* cmd/root.go: the plugins' file extension handlers, lines 191-208        *)
(***************************************************************************)
\* pluginManager.GetFileExtensionHandlers: a map ext -> pluginName, here the
\* set of its entries
ExtensionHandlerMaps ==
    {m \in SUBSET [ext : PluginExtensions, pluginName : DatabaseNames] :
        \A x, y \in m : x.ext = y.ext => x = y}

InitFileHandlers ==
    /\ GroupByIdle
    /\ CmdIdle
    /\ RegIdle
    /\ DescIdle
    /\ fileExtensionHandlers \in ExtensionHandlerMaps
    /\ loopVars = NoLoopVars
    /\ fileHandlers = NoHandlers
    /\ handled = NotHandled

\* lines 200-208: one iteration of the range over the map, which visits the
\* entries in any order: ext, pluginName are assigned the entry and
\* fileHandlers[ext] becomes a closure
RangeFileExtensionHandlers ==
    /\ \E entry \in fileExtensionHandlers \ loopVars.visited :
        /\ loopVars' = [ext |-> entry.ext, pluginName |-> entry.pluginName,
                        visited |-> loopVars.visited \cup {entry}]
        /\ fileHandlers' = [fileHandlers EXCEPT ![entry.ext] = "plugin"]
    /\ UNCHANGED <<fileExtensionHandlers, handled>>
    /\ UNCHANGED gbVars
    /\ UNCHANGED cmdVars
    /\ UNCHANGED regVars
    /\ UNCHANGED descVars

\* line 202: the pluginName a closure of line 201 reads. go.mod says go 1.15:
\* the range loop has one pluginName variable, which every closure refers
\* to, so a call reads the value the loop gave it last
ClosurePluginName(e) == loopVars.pluginName

\* lines 180-188 called by one goroutine: once.Do runs the plugin if it did
\* not run yet
CallDatabase(entry, ok) ==
    IF OnceMustRun(entry.once)
    THEN LET n   == entry.runs + 1
             res == IF ok THEN [db |-> n, err |-> Nil]
                    ELSE [db |-> NoDatabase, err |-> ErrOther]
         IN [entry EXCEPT !.once = [done |-> 1, m |-> 0],
                          !.db = res.db, !.err = res.err, !.runs = n,
                          !.first = IF n = 1 THEN res ELSE @,
                          !.accessed = TRUE]
    ELSE [entry EXCEPT !.accessed = TRUE]

\* lines 201-207: fileHandlers[e] is called, once the loop is over and the
\* environment built (line 210): db, err := databases[pluginName]()
FileHandler(e) ==
    /\ loopVars.visited = fileExtensionHandlers
    /\ fileHandlers[e] = "plugin"
    /\ \E ok \in BOOLEAN :
        LET d     == ClosurePluginName(e)
            entry == CallDatabase(databases[d], ok)
        IN /\ databases' = [databases EXCEPT ![d] = entry]
           /\ handled' = [ext |-> e, pluginName |-> d,
                          result |-> IF entry.err # Nil
                                     THEN [db |-> NoDatabase, err |-> entry.err]
                                     ELSE [db |-> entry.db, err |-> Nil]]
    /\ UNCHANGED <<fileExtensionHandlers, loopVars, fileHandlers, callers>>
    /\ UNCHANGED gbVars
    /\ UNCHANGED cmdVars
    /\ UNCHANGED descVars

NextFileHandlers ==
    \/ RangeFileExtensionHandlers
    \/ \E e \in PluginExtensions : FileHandler(e)

SpecFileHandlers == InitFileHandlers /\ [][NextFileHandlers]_vars

(***************************************************************************)
(* Claims about the file handlers (checked under SpecFileHandlers)         *)
(***************************************************************************)
\* C14: with two or more extensions registered, a call of the handler
\* registered for an extension calls the database of the plugin that
\* registered that extension.
C14_HandlerCallsOwnPlugin ==
    (Cardinality(fileExtensionHandlers) >= 2 /\ handled # NotHandled) =>
        \E entry \in fileExtensionHandlers :
            /\ entry.ext = handled.ext
            /\ entry.pluginName = handled.pluginName

(***************************************************************************)
(* physical: DescribeNode and DescribeExpr (src/unnamed/part_000)          *)
(***************************************************************************)
\* physical expressions
Variable(name, isLevel0) ==
    [ExpressionType |-> "Variable", Name |-> name, IsLevel0 |-> isLevel0]
Constant(value) == [ExpressionType |-> "Constant", Value |-> value]
FunctionCall(name, arguments) ==
    [ExpressionType |-> "FunctionCall", Name |-> name, Arguments |-> arguments]
And(arguments) == [ExpressionType |-> "And", Arguments |-> arguments]
Or(arguments) == [ExpressionType |-> "Or", Arguments |-> arguments]
QueryExpression(source) == [ExpressionType |-> "QueryExpression", Source |-> source]
Coalesce(arguments) == [ExpressionType |-> "Coalesce", Arguments |-> arguments]
Tuple(arguments) == [ExpressionType |-> "Tuple", Arguments |-> arguments]
TypeAssertion(targetType, expression) ==
    [ExpressionType |-> "TypeAssertion", TargetType |-> targetType,
     Expression |-> expression]

\* physical nodes
Datasource(name, predicates) ==
    [NodeType |-> "Datasource", Name |-> name, Predicates |-> predicates]
Distinct(source) == [NodeType |-> "Distinct", Source |-> source]
Filter(predicate, source) ==
    [NodeType |-> "Filter", Predicate |-> predicate, Source |-> source]
GroupByNode(aggregates, aggregateExpressions, key, source) ==
    [NodeType |-> "GroupBy", Aggregates |-> aggregates,
     AggregateExpressions |-> aggregateExpressions, Key |-> key, Source |-> source]
StreamJoin(left, right, leftKey, rightKey) ==
    [NodeType |-> "StreamJoin", Left |-> left, Right |-> right,
     LeftKey |-> leftKey, RightKey |-> rightKey]
LookupJoin(source, joined) ==
    [NodeType |-> "LookupJoin", Source |-> source, Joined |-> joined]
MapNode(schemaFields, expressions, source) ==
    [NodeType |-> "Map", SchemaFields |-> schemaFields, Expressions |-> expressions,
     Source |-> source]
OrderBy(key, directionMultipliers, source) ==
    [NodeType |-> "OrderBy", Key |-> key,
     DirectionMultipliers |-> directionMultipliers, Source |-> source]
Requalifier(qualifier, source) ==
    [NodeType |-> "Requalifier", Qualifier |-> qualifier, Source |-> source]
Unnest(field, source) == [NodeType |-> "Unnest", Field |-> field, Source |-> source]
Limit(limit, source) == [NodeType |-> "Limit", Limit |-> limit, Source |-> source]
\* Arguments is a Go map: here the set of its (name, argument) entries
TableValuedFunction(name, arguments) ==
    [NodeType |-> "TableValuedFunction", Name |-> name, Arguments |-> arguments]
ExpressionArgument(name, expression) ==
    [name |-> name, ArgumentType |-> "Expression", Expression |-> expression]
TableArgument(name, table) ==
    [name |-> name, ArgumentType |-> "Table", Table |-> table]
DescriptorArgument(name, descriptor) ==
    [name |-> name, ArgumentType |-> "Descriptor", Descriptor |-> descriptor]

\* graph.NewNode, AddField, AddChild: a vertex with its fields and its
\* child edges in the order they were added
GraphNode(label, fields, children) ==
    [label |-> label, fields |-> fields, children |-> children]

\* a panic inside DescribeNode or DescribeExpr
Panicked(why) == GraphNode("panic", <<<<"reason", why>>>>, <<>>)
IsPanic(g) == g.label = "panic"

\* a vertex whose children are described first: a panic in a child ends
\* the whole call
Vertex(label, fields, children) ==
    IF \E i \in DOMAIN children : IsPanic(children[i][2])
    THEN children[Min({i \in DOMAIN children : IsPanic(children[i][2])})][2]
    ELSE GraphNode(label, fields, children)

\* the sequences that take their i-th element from the i-th set
ProdSeq(sets) ==
    {s \in [DOMAIN sets -> UNION Range(sets)] : \A i \in DOMAIN sets : s[i] \in sets[i]}

\* the orders in which a range over a Go map can visit its entries
MapOrders(entries) ==
    {s \in [1..Cardinality(entries) -> entries] :
        \A i, j \in 1..Cardinality(entries) : i # j => s[i] # s[j]}

\* fmt.Sprintf("arg_%d", i), fmt.Sprintf("%t", b), Value.String(), Type.String()
Digits == <<"0", "1", "2", "3", "4", "5", "6", "7", "8", "9">>
IntString(i) == Digits[i + 1]
ArgName(i) == "arg_" \o IntString(i)
FormatBool(b) == IF b THEN "true" ELSE "false"
ValueString(v) == IntString(v)
TypeString(t) == t

RECURSIVE DescribeNode(_)
RECURSIVE DescribeExpr(_)

\* the children arg_0, arg_1, ... of an expression with arguments
DescribeArguments(label, arguments) ==
    {Vertex(label, <<>>, [i \in DOMAIN arguments |-> <<ArgName(i - 1), cs[i]>>]) :
        cs \in ProdSeq([i \in DOMAIN arguments |-> DescribeExpr(arguments[i])])}

\* DescribeExpr, lines 131-190: the graphs an invocation can return
DescribeExpr(expr) ==
    CASE expr.ExpressionType = "Variable" ->
            {GraphNode("variable",
                       <<<<"name", expr.Name>>, <<"is_level_0", FormatBool(expr.IsLevel0)>>>>,
                       <<>>)}
      [] expr.ExpressionType = "Constant" ->
            {GraphNode("constant", <<<<"value", ValueString(expr.Value)>>>>, <<>>)}
      [] expr.ExpressionType = "FunctionCall" ->
            {[g EXCEPT !.fields = IF IsPanic(g) THEN @ ELSE <<<<expr.Name, "">>>>] :
                g \in DescribeArguments("function", expr.Arguments)}
      [] expr.ExpressionType = "And" -> DescribeArguments("and", expr.Arguments)
      [] expr.ExpressionType = "Or" -> DescribeArguments("or", expr.Arguments)
      [] expr.ExpressionType = "QueryExpression" ->
            {Vertex("subquery", <<>>, <<<<"source", s>>>>) : s \in DescribeNode(expr.Source)}
      [] expr.ExpressionType = "Coalesce" -> DescribeArguments("coalesce", expr.Arguments)
      [] expr.ExpressionType = "Tuple" -> DescribeArguments("tuple", expr.Arguments)
      [] expr.ExpressionType = "TypeAssertion" ->
            {Vertex("type assertion", <<<<"type", TypeString(expr.TargetType)>>>>,
                    <<<<"value", v>>>>) : v \in DescribeExpr(expr.Expression)}
      [] OTHER -> {Panicked("unexhaustive expression type match")}

\* lines 101-115: the child a table valued function argument is described as
DescribeArgument(value) ==
    CASE value.ArgumentType = "Expression" -> DescribeExpr(value.Expression)
      [] value.ArgumentType = "Table" -> DescribeNode(value.Table)
      [] value.ArgumentType = "Descriptor" ->
            {GraphNode("descriptor", <<<<"value", value.Descriptor>>>>, <<>>)}
      [] OTHER -> {Panicked("unrecognized table valued function argument type")}

\* a vertex with the named children, each any graph its description can be
VertexOver(label, fields, names, childSets) ==
    {Vertex(label, fields, [i \in DOMAIN names |-> <<names[i], cs[i]>>]) :
        cs \in ProdSeq(childSets)}

\* DescribeNode, lines 10-129: the graphs an invocation can return
DescribeNode(n) ==
    CASE n.NodeType = "Datasource" ->
            IF Len(n.Predicates) > 0
            THEN VertexOver(n.Name, <<>>, <<"predicate">>,
                            <<DescribeExpr(And(n.Predicates))>>)
            ELSE {GraphNode(n.Name, <<>>, <<>>)}
      [] n.NodeType = "Distinct" ->
            VertexOver("distinct", <<>>, <<"source">>, <<DescribeNode(n.Source)>>)
      [] n.NodeType = "Filter" ->
            VertexOver("filter", <<>>, <<"predicate", "source">>,
                       <<DescribeExpr(n.Predicate), DescribeNode(n.Source)>>)
      [] n.NodeType = "GroupBy" ->
            VertexOver("group by", <<>>,
                       n.Aggregates \o <<"key", "source">>,
                       [i \in DOMAIN n.Aggregates |-> DescribeExpr(n.AggregateExpressions[i])]
                         \o <<DescribeExpr(Tuple(n.Key)), DescribeNode(n.Source)>>)
      [] n.NodeType = "StreamJoin" ->
            VertexOver("join", <<>>, <<"left", "right", "left_key", "right_key">>,
                       <<DescribeNode(n.Left), DescribeNode(n.Right),
                         DescribeExpr(Tuple(n.LeftKey)), DescribeExpr(Tuple(n.RightKey))>>)
      [] n.NodeType = "LookupJoin" ->
            VertexOver("lookup join", <<>>, <<"source", "joined">>,
                       <<DescribeNode(n.Source), DescribeNode(n.Joined)>>)
      [] n.NodeType = "Map" ->
            VertexOver("map", <<>>,
                       [i \in DOMAIN n.Expressions |-> n.SchemaFields[i]] \o <<"source">>,
                       [i \in DOMAIN n.Expressions |-> DescribeExpr(n.Expressions[i])]
                         \o <<DescribeNode(n.Source)>>)
      [] n.NodeType = "OrderBy" ->
            VertexOver("sort", <<>>,
                       [i \in DOMAIN n.Key |->
                            IF n.DirectionMultipliers[i] = 1 THEN "asc" ELSE "desc"]
                         \o <<"source">>,
                       [i \in DOMAIN n.Key |-> DescribeExpr(n.Key[i])]
                         \o <<DescribeNode(n.Source)>>)
      [] n.NodeType = "Requalifier" ->
            VertexOver("requalifier", <<<<"new qualifier", n.Qualifier>>>>,
                       <<"source">>, <<DescribeNode(n.Source)>>)
      [] n.NodeType = "TableValuedFunction" ->
            \* lines 98-116: the arguments are visited in the map's order
            UNION {VertexOver(n.Name, <<>>,
                              [i \in DOMAIN order |-> order[i].name],
                              [i \in DOMAIN order |-> DescribeArgument(order[i])]) :
                        order \in MapOrders(n.Arguments)}
      [] n.NodeType = "Unnest" ->
            VertexOver("unnest", <<<<"field", n.Field>>>>,
                       <<"source">>, <<DescribeNode(n.Source)>>)
      [] OTHER -> {Panicked("unexhaustive node type match")}

\* the expressions and plans DescribeNode is tried on
VarA == Variable("a", TRUE)
VarB == Variable("b", FALSE)
Const1 == Constant(1)
Leaves == {Datasource("t", <<>>), Datasource("u", <<VarA, Const1>>)}
Exprs ==
    {VarA, Const1, FunctionCall("f", <<VarA, Const1>>), And(<<VarA, VarB>>),
     Or(<<VarA>>), Coalesce(<<VarB, Const1>>), Tuple(<<>>),
     TypeAssertion("Int", VarA), QueryExpression(Datasource("t", <<>>))}

ArgumentsOver(source) ==
    SUBSET {ExpressionArgument("x", Const1), TableArgument("t", source),
            DescriptorArgument("d", "time")}

\* the nodes with one more level over source
Over(source) ==
    {Distinct(source), LookupJoin(source, Datasource("t", <<>>)),
     StreamJoin(source, Datasource("t", <<>>), <<VarA>>, <<VarB>>),
     GroupByNode(<<"count", "sum">>, <<VarA, VarB>>, <<VarA>>, source),
     MapNode(<<"x", "y">>, <<VarA, Const1>>, source),
     OrderBy(<<VarA, VarB>>, <<1, -1>>, source),
     Requalifier("q", source), Unnest("a", source),
     Limit(Const1, source)}
      \cup {Filter(e, source) : e \in Exprs}
      \cup {TableValuedFunction("tumble", a) : a \in ArgumentsOver(source)}

RECURSIVE PlansOfDepth(_)
PlansOfDepth(d) ==
    IF d = 0 THEN Leaves
    ELSE PlansOfDepth(d - 1) \cup UNION {Over(p) : p \in PlansOfDepth(d - 1)}

InitDescribe ==
    /\ GroupByIdle
    /\ CmdIdle
    /\ RegIdle
    /\ FhIdle
    /\ describedNode \in PlansOfDepth(MaxDepth)
    /\ graphs = <<>>

\* one invocation of DescribeNode on the plan
Describe ==
    /\ Len(graphs) < Invocations
    /\ \E g \in DescribeNode(describedNode) : graphs' = Append(graphs, g)
    /\ UNCHANGED describedNode
    /\ UNCHANGED gbVars
    /\ UNCHANGED fhVars
    /\ UNCHANGED cmdVars
    /\ UNCHANGED regVars

NextDescribe == Describe

SpecDescribe == InitDescribe /\ [][NextDescribe]_vars

(***************************************************************************)
(* Claims about DescribeNode (checked under SpecDescribe)                  *)
(***************************************************************************)
\* C10: invocations of DescribeNode on the same plan return the same graph:
\* the same labels, fields and child edges in the same order, for every
\* node variant, a table valued function with two or more arguments too.
C10_DescribeDeterministic ==
    \A i, j \in DOMAIN graphs : graphs[i] = graphs[j]

\* C11: DescribeNode returns a graph for every plan built from the twelve
\* node variants, the Limit node included: no invocation reaches a panic
\* branch.
C11_DescribeNeverPanics ==
    \A i \in DOMAIN graphs : ~IsPanic(graphs[i])

=============================================================================
